---- MODULE Spec2Model ----
(***************************************************************************)
(* Model of utils/call_llm.py: the call_llm adapter (prompt cache on disk, *)
(* remote invocation, response parsing, token cost accounting).            *)
(*                                                                         *)
(* Each process runs call_llm one call at a time; a call is a chain of     *)
(* steps following the statements of the function.  The cache file is the  *)
(* only state shared between processes.  Money is counted in units of      *)
(* 1e-8 USD, so that "rate per 1M tokens / 1_000_000 * tokens" is the      *)
(* product tokens * rate with the rate given in cents per 1M tokens.       *)
(***************************************************************************)
EXTENDS Integers, Sequences, FiniteSets, TLC

\* ---------------------------------------------------------------- bounds
\* calls one process makes in a run
MaxCalls == 3
\* longest content sequence of a remote response (exhaustive runs)
MaxContent == 3
\* largest token count of a usage record in the cost specification
MaxTokens == 2

\* ------------------------------------------------------------ input sets
Procs == {1, 2}
SeqProcs == {1}
\* working directories: cache_file is a relative path
Dirs == {"dir1", "dir2"}
Prompts == {"P1", "P2"}
Texts == {"R1", "R2"}

\* ------------------------------------------------------------ dictionaries
\* A Python dict with string keys is a function whose DOMAIN is its key set.
EmptyDict == [k \in {} |-> ""]
Put(d, k, v) == [x \in (DOMAIN d) \cup {k} |-> IF x = k THEN v ELSE d[x]]
Get(d, k, default) == IF k \in DOMAIN d THEN d[k] ELSE default

\* --------------------------------------------------------- the cache file
\* llm_cache.json is absent, or holds bytes that are no JSON ("garbage"), or
\* the JSON array [] ("list"), or a JSON object prompt -> response ("map").
FileAbsent == [kind |-> "absent", map |-> EmptyDict]
FileGarbage == [kind |-> "garbage", map |-> EmptyDict]
FileList == [kind |-> "list", map |-> EmptyDict]
FileMap(m) == [kind |-> "map", map |-> m]
InitialFiles ==
    {FileAbsent, FileGarbage, FileList, FileMap(EmptyDict),
     FileMap([k \in {"P1"} |-> "R2"])}

\* ------------------------------------------------------------ environment
DefaultModel == "claude-haiku-4-5-20251001"
SonnetModel == "claude-3-5-sonnet-20241022"
OpusModel == "claude-3-opus-20250219"
Unset == "<unset>"

\* rates in cents per 1M tokens
TOKEN_PRICING ==
    [m \in {DefaultModel, SonnetModel, OpusModel} |->
        CASE m = DefaultModel -> [input |-> 80, output |-> 400, thinking |-> 30]
          [] m = SonnetModel -> [input |-> 300, output |-> 1500, thinking |-> 100]
          [] m = OpusModel -> [input |-> 1500, output |-> 7500, thinking |-> 500]]

\* ANTHROPIC_TOKEN_PRICING: unset, not JSON, JSON that is no object, or a table
PricingUnset == [kind |-> "unset", table |-> EmptyDict]
PricingMalformed == [kind |-> "malformed", table |-> EmptyDict]
PricingNotObject == [kind |-> "notobject", table |-> EmptyDict]
PricingTable(t) == [kind |-> "table", table |-> t]

\* os.getenv("LOG_TOKEN_COSTS", "True").lower() in ("true", "1", "yes")
Lower(s) ==
    CASE s = "YES" -> "yes"
      [] s = "True" -> "true"
      [] s = "TRUE" -> "true"
      [] s = "False" -> "false"
      [] OTHER -> s
should_log(e) ==
    LET v == IF e.LOG_TOKEN_COSTS = Unset THEN "True" ELSE e.LOG_TOKEN_COSTS
    IN  Lower(v) \in {"true", "1", "yes"}

LogFlagValues == {Unset, "YES", "False"}
Envs ==
    [ANTHROPIC_API_KEY : {"", "sk-key"},
     LOG_TOKEN_COSTS : LogFlagValues,
     ANTHROPIC_TOKEN_PRICING : {PricingUnset, PricingMalformed, PricingNotObject},
     ANTHROPIC_MODEL : {Unset}]

\* pricing overrides: one that prices the default model, one that gives a
\* single rate of another model, and the flat example of the module docstring
OverrideDefaultModel ==
    [m \in {DefaultModel} |-> [input |-> 100, output |-> 500, thinking |-> 50]]
OverridePartial == [m \in {OpusModel} |-> [input |-> 200]]
OverrideDocstring ==
    [k \in {"input", "output", "thinking"} |->
        CASE k = "input" -> 100 [] k = "output" -> 500 [] k = "thinking" -> 50]
UnknownModel == "claude-unknown"
CostEnvs ==
    [ANTHROPIC_API_KEY : {"sk-key"},
     LOG_TOKEN_COSTS : {Unset},
     ANTHROPIC_TOKEN_PRICING :
        {PricingUnset, PricingMalformed, PricingNotObject,
         PricingTable(OverrideDefaultModel), PricingTable(OverridePartial),
         PricingTable(OverrideDocstring)},
     ANTHROPIC_MODEL : {Unset, SonnetModel, OpusModel, UnknownModel}]

\* ------------------------------------------------------------------- log
Line(level, msg, arg) == [level |-> level, msg |-> msg, arg |-> arg]
Info(msg) == Line("INFO", msg, <<>>)
Warning(msg) == Line("WARNING", msg, <<>>)
Error(msg) == Line("ERROR", msg, <<>>)
Logged(log, level, msg) ==
    \E i \in 1..Len(log) : log[i].level = level /\ log[i].msg = msg

\* ------------------------------------------------------- cost estimation
load_token_pricing(e) ==
    LET p == e.ANTHROPIC_TOKEN_PRICING
    IN  CASE p.kind = "unset" ->
               [value |-> PricingTable(TOKEN_PRICING), warned |-> FALSE]
          [] p.kind = "malformed" ->
               [value |-> PricingTable(TOKEN_PRICING), warned |-> TRUE]
          [] OTHER -> [value |-> p, warned |-> FALSE]

\* variant: the total leaves the thinking tokens out
CostInfo_NoThinking(i, ic, o, oc, t, tc) ==
    [input_tokens |-> i, input_cost |-> ic,
     output_tokens |-> o, output_cost |-> oc,
     thinking_tokens |-> t, thinking_cost |-> tc,
     total_tokens |-> i + o, total_cost |-> ic + oc]

CostInfo(i, ic, o, oc, t, tc) ==
    [input_tokens |-> i, input_cost |-> ic,
     output_tokens |-> o, output_cost |-> oc,
     thinking_tokens |-> t, thinking_cost |-> tc,
     total_tokens |-> i + o + t, total_cost |-> ic + oc + tc]

\* variant: a model missing from the table gets no entry at all
calculate_token_cost_NoFallback(model, input_tokens, output_tokens, thinking_tokens, e) ==
    LET loaded == load_token_pricing(e)
        pricing == loaded.value
    IN  IF pricing.kind # "table"
        THEN [raised |-> TRUE, warned |-> loaded.warned, info |-> EmptyDict]
        ELSE
        LET model_pricing == Get(pricing.table, model, EmptyDict)
            input_price == Get(model_pricing, "input", 80)
            output_price == Get(model_pricing, "output", 400)
            thinking_price == Get(model_pricing, "thinking", 30)
        IN  [raised |-> FALSE, warned |-> loaded.warned,
             info |-> CostInfo(input_tokens, input_tokens * input_price,
                               output_tokens, output_tokens * output_price,
                               thinking_tokens, thinking_tokens * thinking_price)]

\* raised: pricing.get fails when the override is JSON but not an object
calculate_token_cost(model, input_tokens, output_tokens, thinking_tokens, e) ==
    LET loaded == load_token_pricing(e)
        pricing == loaded.value
    IN  IF pricing.kind # "table"
        THEN [raised |-> TRUE, warned |-> loaded.warned, info |-> EmptyDict]
        ELSE
        LET model_pricing ==
                Get(pricing.table, model, Get(pricing.table, DefaultModel, EmptyDict))
            input_price == Get(model_pricing, "input", 80)
            output_price == Get(model_pricing, "output", 400)
            thinking_price == Get(model_pricing, "thinking", 30)
        IN  [raised |-> FALSE, warned |-> loaded.warned,
             info |-> CostInfo(input_tokens, input_tokens * input_price,
                               output_tokens, output_tokens * output_price,
                               thinking_tokens, thinking_tokens * thinking_price)]

\* raised: cost_info["total_cost"] is a KeyError on a dict without that key
log_token_cost(total, cost_info, from_cache, e) ==
    IF ~should_log(e)
    THEN [raised |-> FALSE, total |-> total, lines |-> <<>>]
    ELSE IF "total_cost" \notin DOMAIN cost_info
    THEN [raised |-> TRUE, total |-> total, lines |-> <<>>]
    ELSE LET t == total + cost_info.total_cost
         IN  IF from_cache
             THEN [raised |-> FALSE, total |-> t, lines |-> <<Info("CACHE_HIT")>>]
             ELSE [raised |-> FALSE, total |-> t,
                   lines |-> <<Line("INFO", "TOKEN_COST",
                                    <<cost_info.total_cost, t>>)>>]

\* -------------------------------------------------------- remote response
None == "<None>"
Text(t) == [type |-> "text", text |-> t]
Thinking == [type |-> "thinking", text |-> ""]
ToolUse == [type |-> "tool_use", text |-> ""]
Segments == {Text(t) : t \in Texts} \cup {Thinking, ToolUse}

Usage(i, o, c) ==
    [input_tokens |-> i, output_tokens |-> o, cache_creation_input_tokens |-> c]
\* cache_creation_input_tokens = -1 stands for a missing or None attribute
Usages == {Usage(1, 1, -1), Usage(2, 1, 1)}

Response(content, usage) == [failed |-> FALSE, content |-> content, usage |-> usage]
ApiFailure == [failed |-> TRUE, content |-> <<>>, usage |-> Usage(0, 0, -1)]
NoResponse == [failed |-> FALSE, content |-> <<>>, usage |-> Usage(0, 0, -1)]

SeqsUpTo(S, n) == UNION {[1..k -> S] : k \in 0..n}
AllResponses ==
    {Response(c, u) : c \in SeqsUpTo(Segments, MaxContent), u \in Usages}
SampleResponses ==
    {Response(<<Text("R1")>>, Usage(1, 1, -1)),
     Response(<<Thinking, Text("R2"), Text("R1")>>, Usage(2, 1, 1)),
     Response(<<Thinking, ToolUse>>, Usage(1, 1, -1))}

\* variant: the loop without its break keeps the last text block
RECURSIVE ScanAll(_, _, _)
ScanAll(content, i, found) ==
    IF i > Len(content) THEN found
    ELSE ScanAll(content, i + 1,
                 IF content[i].type = "text" THEN content[i].text ELSE found)
FirstText_NoBreak(content) == ScanAll(content, 1, None)

\* the loop of lines 400-404: the text of the first block of type "text"
RECURSIVE Scan(_, _)
Scan(content, i) ==
    IF i > Len(content) THEN None
    ELSE IF content[i].type = "text" THEN content[i].text
    ELSE Scan(content, i + 1)
FirstText(content) == Scan(content, 1)

\* variant: only the type of the block at index 0 is reported
ContentTypes_HeadOnly(content) ==
    IF Len(content) = 0 THEN <<>> ELSE <<content[1].type>>

\* line 407: [c.type for c in response.content]
ContentTypes(content) == [i \in 1..Len(content) |-> content[i].type]

\* ------------------------------------------------------------------ state
VARIABLES
    cacheFile,      \* per directory: content of its llm_cache.json
    cwd,            \* per process: its working directory
    env,            \* per process: its os.environ
    st,             \* per process: the locals and position of its current call
    sessionTotal,   \* per process: the global _session_total_cost
    prev,           \* per process: summary of the call before the current one
    calls,          \* per process: number of calls started
    billed          \* per process: summed total_cost of the calls answered remotely

vars == <<cacheFile, cwd, env, st, sessionTotal, prev, calls, billed>>

NoErr == [kind |-> "none", types |-> <<>>]
NoCache == [kind |-> "dict", map |-> EmptyDict]

Idle ==
    [pc |-> "idle", prompt |-> "", use_cache |-> FALSE, lookup |-> "none",
     response |-> NoResponse, response_text |-> None, cost_info |-> EmptyDict,
     cache |-> NoCache, outcome |-> "none", ret |-> None, err |-> NoErr,
     log |-> <<>>, remote |-> 0, reads |-> 0, writes |-> 0,
     stored |-> FALSE, saveFailed |-> FALSE,
     file0 |-> FileAbsent, total0 |-> 0]

\* line 356: the call starts by logging the prompt
Fresh(prompt, use_cache, file, total) ==
    [Idle EXCEPT !.pc = "check_cache", !.prompt = prompt, !.use_cache = use_cache,
                 !.outcome = "running", !.log = <<Info("PROMPT")>>,
                 !.file0 = file, !.total0 = total]

Summary(s) ==
    [prompt |-> s.prompt, use_cache |-> s.use_cache, outcome |-> s.outcome,
     ret |-> s.ret, remote |-> s.remote, stored |-> s.stored, file0 |-> s.file0]

\* lines 445-448: the handler logs the failure and re-raises it
Raise(s, kind, types) ==
    [s EXCEPT !.pc = "done", !.outcome = "raised",
              !.err = [kind |-> kind, types |-> types],
              !.log = Append(@, Error("LLM_CALL_FAILED"))]

ModelOf(e) == IF e.ANTHROPIC_MODEL = Unset THEN DefaultModel ELSE e.ANTHROPIC_MODEL

\* the cache file the process opens
File(p) == cacheFile[cwd[p]]

\* no call was made yet
InitCalls ==
    /\ st = [p \in Procs |-> Idle]
    /\ sessionTotal = [p \in Procs |-> 0]
    /\ prev = [p \in Procs |-> Summary(Idle)]
    /\ calls = [p \in Procs |-> 0]
    /\ billed = [p \in Procs |-> 0]

\* the processes run in one directory with one environment
Init ==
    /\ cwd = [p \in Procs |-> "dir1"]
    /\ cacheFile \in {[d \in Dirs |-> IF d = "dir1" THEN f ELSE FileAbsent] :
                        f \in InitialFiles}
    /\ env \in {[p \in Procs |-> e] : e \in Envs}
    /\ InitCalls

\* ---------------------------------------------------- conditions, handlers
\* variant: the lookup ignores the caller's flag
LookupEnabled_Always(s) == TRUE

\* line 359: if use_cache
LookupEnabled(s) == s.use_cache

\* line 427: if use_cache
StoreEnabled(s) == s.use_cache

\* variant: the credential is not validated
CredentialMissing_Never(e) == FALSE

\* lines 374-375: if not api_key
CredentialMissing(e) == e.ANTHROPIC_API_KEY = ""

\* variant: no handler around the lookup, its failure ends the call
LoadFailed_Raises(s, lookup, lines) ==
    Raise([s EXCEPT !.lookup = lookup, !.reads = @ + 1, !.log = @ \o lines],
          "cache_load", <<>>)

\* lines 369-370: whatever the lookup raised is logged and the call goes on
LoadFailed(s, lookup, lines) ==
    [s EXCEPT !.pc = "check_cred", !.lookup = lookup, !.reads = @ + 1,
              !.log = (@ \o lines) \o <<Warning("FAILED_LOAD_CACHE")>>]

\* variant: no handler around the store, its failure ends the call
SaveFailed_Raises(s, writes) ==
    Raise([s EXCEPT !.saveFailed = TRUE, !.writes = @ + writes], "cache_save", <<>>)

\* variant: the store's failure is swallowed without a log line
SaveFailed_Silent(s, writes) ==
    [s EXCEPT !.pc = "return", !.saveFailed = TRUE, !.writes = @ + writes]

\* lines 440-441: whatever the store raised is logged and the call goes on
SaveFailed(s, writes) ==
    [s EXCEPT !.pc = "return", !.saveFailed = TRUE, !.writes = @ + writes,
              !.log = Append(@, Warning("FAILED_SAVE_CACHE"))]

\* ---------------------------------------------------------------- actions
\* call_llm(prompt, use_cache) is entered
Call(p, limit) ==
    /\ st[p].pc \in {"idle", "done"}
    /\ calls[p] < limit
    /\ \E prompt \in Prompts, use_cache \in BOOLEAN :
          st' = [st EXCEPT ![p] = Fresh(prompt, use_cache, File(p), sessionTotal[p])]
    /\ prev' = [prev EXCEPT ![p] = Summary(st[p])]
    /\ calls' = [calls EXCEPT ![p] = @ + 1]
    /\ UNCHANGED <<cacheFile, cwd, env, sessionTotal, billed>>

\* lines 359-370: the cache lookup.  readOK = FALSE: open() raises.
CheckCache(p) ==
    LET s == st[p]
        miss(lookup, reads) ==
            [s EXCEPT !.pc = "check_cred", !.lookup = lookup, !.reads = @ + reads]
    IN
    /\ s.pc = "check_cache"
    /\ \E readOK \in BOOLEAN :
        LET hit == log_token_cost(sessionTotal[p], EmptyDict, TRUE, env[p])
            next ==
              CASE ~LookupEnabled(s) -> miss("skipped", 0)
                [] LookupEnabled(s) /\ File(p).kind = "absent" -> miss("absent", 0)
                [] LookupEnabled(s) /\ File(p).kind # "absent" /\ ~readOK ->
                       LoadFailed(s, "unreadable", <<>>)
                [] LookupEnabled(s) /\ File(p).kind = "garbage" /\ readOK ->
                       LoadFailed(s, "malformed", <<>>)
                [] LookupEnabled(s) /\ File(p).kind = "list" /\ readOK ->
                       miss("miss", 1)
                [] LookupEnabled(s) /\ File(p).kind = "map" /\ readOK ->
                       IF s.prompt \notin DOMAIN File(p).map
                       THEN miss("miss", 1)
                       ELSE IF hit.raised
                       THEN LoadFailed(s, "hit_error", <<Info("RESPONSE_FROM_CACHE")>>)
                       ELSE [s EXCEPT !.pc = "done", !.lookup = "hit",
                                      !.outcome = "returned",
                                      !.ret = File(p).map[s.prompt],
                                      !.log = (@ \o <<Info("RESPONSE_FROM_CACHE")>>)
                                                 \o hit.lines,
                                      !.reads = @ + 1]
            total ==
              IF LookupEnabled(s) /\ File(p).kind = "map" /\ readOK
                 /\ s.prompt \in DOMAIN File(p).map /\ ~hit.raised
              THEN hit.total ELSE sessionTotal[p]
        IN  /\ st' = [st EXCEPT ![p] = next]
            /\ sessionTotal' = [sessionTotal EXCEPT ![p] = total]
    /\ UNCHANGED <<cacheFile, cwd, env, prev, calls, billed>>

\* lines 372-377: the credential is validated
CheckCred(p) ==
    LET s == st[p] IN
    /\ s.pc = "check_cred"
    /\ st' = [st EXCEPT ![p] =
                IF CredentialMissing(env[p])
                THEN Raise([s EXCEPT !.log = Append(@, Error("API_KEY_NOT_SET"))],
                           "config", <<>>)
                ELSE [s EXCEPT !.pc = "invoke"]]
    /\ UNCHANGED <<cacheFile, cwd, env, sessionTotal, prev, calls, billed>>

\* lines 379-397: client.messages.create answers with a response or raises
InvokeRemote(p, pool) ==
    LET s == st[p] IN
    /\ s.pc = "invoke"
    /\ \E r \in pool \cup {ApiFailure} :
          st' = [st EXCEPT ![p] =
                   IF r.failed
                   THEN Raise([s EXCEPT !.remote = @ + 1], "remote", <<>>)
                   ELSE [s EXCEPT !.pc = "parse", !.remote = @ + 1, !.response = r]]
    /\ UNCHANGED <<cacheFile, cwd, env, sessionTotal, prev, calls, billed>>

\* lines 399-412: the first text block is the result
ParseResponse(p) ==
    LET s == st[p]
        response_text == FirstText(s.response.content)
        types == ContentTypes(s.response.content)
    IN
    /\ s.pc = "parse"
    /\ st' = [st EXCEPT ![p] =
                IF response_text = None
                THEN Raise([s EXCEPT !.log =
                               Append(@, Line("ERROR", "NO_TEXT_CONTENT", types))],
                           "no_text", types)
                ELSE [s EXCEPT !.pc = "cost", !.response_text = response_text,
                               !.log = Append(@, Info("RESPONSE"))]]
    /\ UNCHANGED <<cacheFile, cwd, env, sessionTotal, prev, calls, billed>>

\* lines 414-423: token usage is read and priced
ComputeCost(p) ==
    LET s == st[p]
        u == s.response.usage
        thinking_tokens ==
            IF u.cache_creation_input_tokens = -1 THEN 0
            ELSE u.cache_creation_input_tokens
        c == calculate_token_cost(ModelOf(env[p]), u.input_tokens, u.output_tokens,
                                  thinking_tokens, env[p])
        warned == IF c.warned THEN <<Warning("FAILED_PARSE_PRICING")>> ELSE <<>>
    IN
    /\ s.pc = "cost"
    /\ st' = [st EXCEPT ![p] =
                IF c.raised
                THEN Raise([s EXCEPT !.log = @ \o warned], "cost", <<>>)
                ELSE [s EXCEPT !.pc = "log_cost", !.cost_info = c.info,
                               !.log = @ \o warned]]
    /\ UNCHANGED <<cacheFile, cwd, env, sessionTotal, prev, calls, billed>>

\* line 424: _log_token_cost(cost_info, model, from_cache=False)
LogCost(p) ==
    LET s == st[p]
        r == log_token_cost(sessionTotal[p], s.cost_info, FALSE, env[p])
    IN
    /\ s.pc = "log_cost"
    /\ st' = [st EXCEPT ![p] =
                IF r.raised THEN Raise(s, "cost", <<>>)
                ELSE [s EXCEPT !.pc = IF StoreEnabled(s) THEN "reread" ELSE "return",
                               !.log = @ \o r.lines]]
    /\ sessionTotal' = [sessionTotal EXCEPT ![p] = r.total]
    /\ UNCHANGED <<cacheFile, cwd, env, prev, calls, billed>>

\* lines 427-435: the file is read again; any failure leaves cache = {}
RereadCache(p) ==
    LET s == st[p] IN
    /\ s.pc = "reread"
    /\ \E readOK \in BOOLEAN :
          st' = [st EXCEPT ![p] =
                   [s EXCEPT !.pc = "write",
                             !.reads = IF File(p).kind = "absent" THEN @ ELSE @ + 1,
                             !.cache =
                                IF readOK /\ File(p).kind = "map"
                                THEN [kind |-> "dict", map |-> File(p).map]
                                ELSE IF readOK /\ File(p).kind = "list"
                                THEN [kind |-> "list", map |-> EmptyDict]
                                ELSE NoCache]]
    /\ UNCHANGED <<cacheFile, cwd, env, sessionTotal, prev, calls, billed>>

\* variant: the store holds a lock over re-read and write, so that it writes
\* the file's current mapping plus its entry
WriteCache_Locked(p) ==
    LET s == st[p]
        current == IF File(p).kind = "map" THEN File(p).map ELSE EmptyDict
    IN
    /\ s.pc = "write"
    /\ st' = [st EXCEPT ![p] =
                [s EXCEPT !.pc = "return", !.stored = TRUE, !.writes = @ + 1]]
    /\ cacheFile' = [cacheFile EXCEPT ![cwd[p]] =
                        FileMap(Put(current, s.prompt, s.response_text))]
    /\ UNCHANGED <<cwd, env, sessionTotal, prev, calls, billed>>

\* variant: the store writes its own entry without the mapping it re-read
WriteCache_NoMerge(p) ==
    LET s == st[p] IN
    /\ s.pc = "write"
    /\ \E writeOK \in BOOLEAN :
          IF s.cache.kind = "list" \/ ~writeOK
          THEN /\ st' = [st EXCEPT ![p] = SaveFailed(s, 1)]
               /\ UNCHANGED cacheFile
          ELSE /\ st' = [st EXCEPT ![p] =
                           [s EXCEPT !.pc = "return", !.stored = TRUE, !.writes = @ + 1]]
               /\ cacheFile' = [cacheFile EXCEPT ![cwd[p]] =
                                   FileMap(Put(EmptyDict, s.prompt, s.response_text))]
    /\ UNCHANGED <<cwd, env, sessionTotal, prev, calls, billed>>

\* lines 437-441: the entry is set and the whole mapping written back.
\* cache[prompt] = ... raises on a list; writeOK = FALSE: open(.., "w") raises.
WriteCache(p) ==
    LET s == st[p] IN
    /\ s.pc = "write"
    /\ \E writeOK \in BOOLEAN :
          IF s.cache.kind = "list"
          THEN /\ st' = [st EXCEPT ![p] = SaveFailed(s, 0)]
               /\ UNCHANGED cacheFile
          ELSE IF ~writeOK
          THEN /\ st' = [st EXCEPT ![p] = SaveFailed(s, 1)]
               /\ UNCHANGED cacheFile
          ELSE /\ st' = [st EXCEPT ![p] =
                           [s EXCEPT !.pc = "return", !.stored = TRUE, !.writes = @ + 1]]
               /\ cacheFile' = [cacheFile EXCEPT ![cwd[p]] =
                                   FileMap(Put(s.cache.map, s.prompt, s.response_text))]
    /\ UNCHANGED <<cwd, env, sessionTotal, prev, calls, billed>>

\* line 443: return response_text
Return(p) ==
    LET s == st[p] IN
    /\ s.pc = "return"
    /\ st' = [st EXCEPT ![p] =
                [s EXCEPT !.pc = "done", !.outcome = "returned", !.ret = s.response_text]]
    /\ billed' = [billed EXCEPT ![p] = @ + s.cost_info.total_cost]
    /\ UNCHANGED <<cacheFile, cwd, env, sessionTotal, prev, calls>>

\* --------------------------------------------------------- specifications
\* one process, calls in sequence, a sample of remote responses
Next ==
    \E p \in SeqProcs :
        \/ Call(p, MaxCalls)
        \/ CheckCache(p)
        \/ CheckCred(p)
        \/ InvokeRemote(p, SampleResponses)
        \/ ParseResponse(p)
        \/ ComputeCost(p)
        \/ LogCost(p)
        \/ RereadCache(p)
        \/ WriteCache(p)
        \/ Return(p)

Spec == Init /\ [][Next]_vars

\* one process, one call, every remote response up to MaxContent segments
NextParse ==
    \E p \in SeqProcs :
        \/ Call(p, 1)
        \/ CheckCache(p)
        \/ CheckCred(p)
        \/ InvokeRemote(p, AllResponses)
        \/ ParseResponse(p)
        \/ ComputeCost(p)
        \/ LogCost(p)
        \/ RereadCache(p)
        \/ WriteCache(p)
        \/ Return(p)

SpecParse == Init /\ [][NextParse]_vars

\* two independent processes in one directory, one call each, interleaved
NextConc ==
    \E p \in Procs :
        \/ Call(p, 1)
        \/ CheckCache(p)
        \/ CheckCred(p)
        \/ InvokeRemote(p, SampleResponses)
        \/ ParseResponse(p)
        \/ ComputeCost(p)
        \/ LogCost(p)
        \/ RereadCache(p)
        \/ WriteCache(p)
        \/ Return(p)

SpecConc == Init /\ [][NextConc]_vars

\* one process, one call, every token usage up to MaxTokens, under every
\* sampled pricing override and model setting
CostResponses ==
    {Response(<<Text("R1")>>, Usage(a, b, c)) :
        a \in 0..MaxTokens, b \in 0..MaxTokens, c \in -1..MaxTokens}

InitCost ==
    /\ cwd = [p \in Procs |-> "dir1"]
    /\ cacheFile = [d \in Dirs |-> FileAbsent]
    /\ env \in {[p \in Procs |-> e] : e \in CostEnvs}
    /\ InitCalls

NextCost ==
    \E p \in SeqProcs :
        \/ Call(p, 1)
        \/ CheckCache(p)
        \/ CheckCred(p)
        \/ InvokeRemote(p, CostResponses)
        \/ ParseResponse(p)
        \/ ComputeCost(p)
        \/ LogCost(p)
        \/ RereadCache(p)
        \/ WriteCache(p)
        \/ Return(p)

SpecCost == InitCost /\ [][NextCost]_vars

\* two runs of one call each, in two directories with equal cache files,
\* under environments that differ in LOG_TOKEN_COSTS only
InitTwin ==
    /\ cwd = [p \in Procs |-> IF p = 1 THEN "dir1" ELSE "dir2"]
    /\ cacheFile \in {[d \in Dirs |-> f] : f \in InitialFiles}
    /\ env \in {[p \in Procs |-> IF p = 1 THEN e ELSE [e EXCEPT !.LOG_TOKEN_COSTS = f]] :
                  e \in Envs, f \in LogFlagValues}
    /\ should_log(env[1]) # should_log(env[2])
    /\ InitCalls

SpecTwin == InitTwin /\ [][NextConc]_vars

\* ----------------------------------------------------------------- claims
Ended(s) == s.pc = "done"
Returned(s) == s.pc = "done" /\ s.outcome = "returned"
Raised(s) == s.pc = "done" /\ s.outcome = "raised"
HasText(content) == \E i \in 1..Len(content) : content[i].type = "text"
IsFirstText(content, t) ==
    \E i \in 1..Len(content) :
        /\ content[i].type = "text"
        /\ content[i].text = t
        /\ \A j \in 1..(i - 1) : content[j].type # "text"
\* the call received a response from the remote service
Answered(s) == s.remote = 1 /\ s.err.kind # "remote" /\ s.pc \notin {"idle", "invoke"}
\* the call before this one was call(P, use_cache=true) for the same prompt,
\* got its response remotely and stored it; this call could read the file
SecondOfPair(s, q) ==
    /\ s.pc # "idle" /\ s.use_cache /\ s.lookup # "unreadable"
    /\ q.use_cache /\ q.prompt = s.prompt
    /\ q.outcome = "returned" /\ q.remote = 1 /\ q.stored

\* C1: after call(P, use_cache=true) obtained R remotely and stored it, the
\* next call(P, use_cache=true) returns exactly R and invokes the remote
\* service not at all, whatever the cost-logging flag.
C1_SecondCallServedFromCache ==
    \A p \in SeqProcs :
        SecondOfPair(st[p], prev[p]) =>
            /\ st[p].remote = 0
            /\ Ended(st[p]) => Returned(st[p]) /\ st[p].ret = prev[p].ret

\* C2: the second call(P, use_cache=true) after a first successful one leaves
\* the session cost accumulator as the first call left it.
C2_SecondCallAddsNoCost ==
    \A p \in SeqProcs :
        SecondOfPair(st[p], prev[p]) /\ Ended(st[p]) =>
            sessionTotal[p] = st[p].total0

\* C3: call(P, use_cache=false) neither reads nor writes the cache file, which
\* stays as it was, also when it holds an entry for P; its result is the text
\* of one fresh remote invocation; two such calls in a row make two remote
\* invocations and store neither response.
C3_NoCacheWhenDisabled ==
    \A p \in SeqProcs :
        LET s == st[p]
            q == prev[p]
        IN  (s.pc # "idle" /\ ~s.use_cache) =>
                /\ s.reads = 0 /\ s.writes = 0 /\ ~s.stored
                /\ File(p) = s.file0
                /\ Returned(s) =>
                      /\ s.remote = 1
                      /\ IsFirstText(s.response.content, s.ret)
                /\ (Returned(s) /\ ~q.use_cache /\ q.outcome = "returned") =>
                      /\ q.remote + s.remote = 2
                      /\ ~q.stored
                      /\ File(p) = q.file0

C3_Witness ==
    LET s == st[1]
        q == prev[1]
    IN  /\ Returned(s) /\ ~s.use_cache
        /\ s.file0.kind = "map" /\ s.prompt \in DOMAIN s.file0.map
        /\ s.ret # s.file0.map[s.prompt]
        /\ ~q.use_cache /\ q.outcome = "returned" /\ q.prompt = s.prompt

\* C4 (as stated): every call started without the API credential ends in a
\* configuration failure, with no remote invocation and no cache write.
C4_NoCredentialAlwaysFails ==
    \A p \in SeqProcs :
        (Ended(st[p]) /\ env[p].ANTHROPIC_API_KEY = "") =>
            /\ Raised(st[p]) /\ st[p].err.kind = "config"
            /\ st[p].remote = 0 /\ st[p].writes = 0 /\ File(p) = st[p].file0

\* C4 (amended): a call started without the API credential makes no remote
\* invocation and no cache write; it ends in a configuration failure unless
\* the lookup found the prompt's entry and returned it.
C4_NoCredentialFailsUnlessHit ==
    \A p \in SeqProcs :
        LET s == st[p]
        IN  (s.pc # "idle" /\ env[p].ANTHROPIC_API_KEY = "") =>
                /\ s.remote = 0 /\ s.writes = 0 /\ File(p) = s.file0
                /\ Ended(s) =>
                      \/ /\ Raised(s) /\ s.err.kind = "config"
                         /\ Logged(s.log, "ERROR", "API_KEY_NOT_SET")
                      \/ /\ Returned(s) /\ s.use_cache /\ s.lookup = "hit"
                         /\ s.file0.kind = "map"
                         /\ s.prompt \in DOMAIN s.file0.map
                         /\ s.ret = s.file0.map[s.prompt]

C4_Witness ==
    LET s == st[1]
    IN  /\ env[1].ANTHROPIC_API_KEY = ""
        /\ Raised(s) /\ s.err.kind = "config" /\ s.use_cache
        /\ s.lookup = "hit_error"

\* C5: a call that fails after the cache miss (credential, remote invocation,
\* no text segment, cost computation) surfaces the failure, runs no later
\* stage, and leaves the cache file and the session accumulator as they were.
C5_FailureAbortsCall ==
    \A p \in SeqProcs :
        LET s == st[p]
        IN  Raised(s) =>
                /\ s.err.kind \in {"config", "remote", "no_text", "cost"}
                /\ Logged(s.log, "ERROR", "LLM_CALL_FAILED")
                /\ s.ret = None
                /\ File(p) = s.file0
                /\ sessionTotal[p] = s.total0
                /\ s.writes = 0 /\ ~s.stored /\ ~s.saveFailed
                /\ ~Logged(s.log, "INFO", "TOKEN_COST")
                /\ s.err.kind = "config" => s.remote = 0
                /\ s.err.kind \in {"config", "remote"} =>
                      s.response = NoResponse /\ s.response_text = None
                /\ s.err.kind = "no_text" =>
                      s.response_text = None /\ DOMAIN s.cost_info = {}
                /\ s.err.kind = "cost" =>
                      s.response_text # None /\ DOMAIN s.cost_info = {}

C5_Witness ==
    LET s == st[1]
    IN  /\ Raised(s) /\ s.err.kind = "cost" /\ s.use_cache
        /\ should_log(env[1]) /\ s.lookup = "hit_error"
        /\ s.remote = 1

\* C6: a remote response without a text segment (the empty one included) fails
\* the call with a response-shape failure whose message lists the types of all
\* segments present, in order; no cost is added and nothing is written.
C6_NoTextSegmentFails ==
    \A p \in SeqProcs :
        LET s == st[p]
            content == s.response.content
        IN  (Ended(s) /\ Answered(s) /\ ~HasText(content)) =>
                /\ Raised(s) /\ s.err.kind = "no_text"
                /\ Len(s.err.types) = Len(content)
                /\ \A i \in 1..Len(content) : s.err.types[i] = content[i].type
                /\ \E i \in 1..Len(s.log) :
                      /\ s.log[i].level = "ERROR"
                      /\ s.log[i].msg = "NO_TEXT_CONTENT"
                      /\ s.log[i].arg = s.err.types
                /\ sessionTotal[p] = s.total0
                /\ File(p) = s.file0 /\ s.writes = 0

C6_Witness ==
    LET s == st[1]
    IN  /\ Raised(s) /\ s.use_cache /\ should_log(env[1])
        /\ s.err.types = <<"thinking", "tool_use">>

\* C7: when the remote response has a text segment, a successful call returns
\* the text of the first text segment in sequence order, whatever precedes or
\* follows it, and with use_cache=true stores that text under the prompt.
C7_FirstTextSegmentIsResult ==
    \A p \in SeqProcs :
        LET s == st[p]
            content == s.response.content
        IN  (Ended(s) /\ Answered(s) /\ HasText(content)) =>
                /\ s.err.kind # "no_text"
                /\ Returned(s) => IsFirstText(content, s.ret)
                /\ (Returned(s) /\ s.stored) =>
                      /\ File(p).kind = "map"
                      /\ s.prompt \in DOMAIN File(p).map
                      /\ IsFirstText(content, File(p).map[s.prompt])

C7_Witness ==
    LET s == st[1]
        content == s.response.content
    IN  /\ Returned(s) /\ s.stored
        /\ Len(content) = 3
        /\ content[1].type = "thinking"
        /\ content[2] = Text("R2") /\ content[3] = Text("R1")
        /\ s.ret = "R2"

\* C8: when the cache file cannot be written in the store step of
\* call(P, use_cache=true), a warning is logged and the failure swallowed: the
\* call returns the fresh response text and the cost it added stays added.
C8_SaveFailureSwallowed ==
    \A p \in SeqProcs :
        LET s == st[p]
        IN  (Ended(s) /\ s.saveFailed) =>
                /\ Returned(s)
                /\ s.use_cache /\ s.remote = 1
                /\ IsFirstText(s.response.content, s.ret)
                /\ Logged(s.log, "WARNING", "FAILED_SAVE_CACHE")
                /\ ~s.stored /\ File(p) = s.file0
                /\ sessionTotal[p] = s.total0 +
                      (IF should_log(env[p]) THEN s.cost_info.total_cost ELSE 0)

C8_Witness ==
    LET s == st[1]
    IN  /\ Returned(s) /\ s.saveFailed /\ s.writes = 1
        /\ should_log(env[1]) /\ sessionTotal[1] > s.total0

CacheProblem(s) ==
    s.use_cache /\ s.lookup \in {"absent", "unreadable", "malformed"}
KnownFailures == {"none", "config", "remote", "no_text", "cost"}

\* C9 (as stated): with the cache file absent, unreadable or malformed the
\* lookup of call(P, use_cache=true) is a miss, the call goes on to the remote
\* invocation and is not failed by the cache problem, and a warning is logged.
C9_CacheProblemWarns ==
    \A p \in SeqProcs :
        LET s == st[p]
        IN  CacheProblem(s) =>
                /\ s.err.kind \in KnownFailures
                /\ (Ended(s) /\ ~CredentialMissing(env[p])) => s.remote = 1
                /\ Logged(s.log, "WARNING", "FAILED_LOAD_CACHE")

\* C9 (amended): in each of the three cases the lookup is a miss, the call
\* goes on to the remote invocation and is not failed by the cache problem; a
\* warning is logged when the file exists but cannot be read or parsed, and
\* none when the file is absent.
C9_CacheProblemIsMiss ==
    \A p \in SeqProcs :
        LET s == st[p]
        IN  CacheProblem(s) =>
                /\ s.err.kind \in KnownFailures
                /\ (Ended(s) /\ ~CredentialMissing(env[p])) => s.remote = 1
                /\ Ended(s) => s.lookup # "hit"
                /\ Logged(s.log, "WARNING", "FAILED_LOAD_CACHE")
                      <=> s.lookup \in {"unreadable", "malformed"}

C9_Witness ==
    LET s == st[1]
    IN  /\ Returned(s) /\ s.use_cache /\ s.lookup = "absent" /\ s.remote = 1
        /\ s.stored /\ ~Logged(s.log, "WARNING", "FAILED_LOAD_CACHE")

\* C10: between calls the session cost accumulator equals the summed total
\* cost of the calls answered by the remote service, with cost logging enabled
\* or disabled.
C10_AccumulatorIsRemoteCost ==
    \A p \in SeqProcs :
        st[p].pc \in {"idle", "done"} => sessionTotal[p] = billed[p]

\* C11: the store takes no lock: a successful write replaces the file by the
\* snapshot its process re-read earlier plus the new entry, whatever another
\* process wrote in between; so two processes storing distinct prompts can
\* both return while the file keeps only the last writer's entry.
C11_LastWriterSnapshotWins ==
    [][\A p \in Procs :
          (st[p].pc = "write" /\ st'[p].pc = "return" /\ st'[p].stored) =>
              cacheFile'[cwd[p]] =
                  FileMap(Put(st[p].cache.map, st[p].prompt, st[p].response_text))]_vars

C11_Witness ==
    /\ cwd[1] = cwd[2]
    /\ Returned(st[1]) /\ Returned(st[2])
    /\ st[1].use_cache /\ st[2].use_cache
    /\ st[1].stored /\ st[2].stored
    /\ st[1].prompt # st[2].prompt
    /\ File(1).kind = "map"
    /\ Cardinality(DOMAIN File(1).map) = 1


\* ------------------------------------------------------ claims on the cost
\* the pricing table in effect and the rates of a model in a table
EffectiveTable(e) ==
    IF e.ANTHROPIC_TOKEN_PRICING.kind = "table"
    THEN e.ANTHROPIC_TOKEN_PRICING.table
    ELSE TOKEN_PRICING
RatesOf(t, m) ==
    LET entry == IF m \in DOMAIN t THEN t[m] ELSE EmptyDict
    IN  [input |-> IF "input" \in DOMAIN entry THEN entry.input ELSE 80,
         output |-> IF "output" \in DOMAIN entry THEN entry.output ELSE 400,
         thinking |-> IF "thinking" \in DOMAIN entry THEN entry.thinking ELSE 30]
ResolvedRates(e) ==
    LET t == EffectiveTable(e)
    IN  IF ModelOf(e) \in DOMAIN t THEN RatesOf(t, ModelOf(e))
        ELSE RatesOf(t, DefaultModel)
Priced(s) == s.pc \in {"log_cost", "reread", "write", "return"}
TokensOf(u) ==
    [a |-> u.input_tokens, b |-> u.output_tokens,
     c |-> IF u.cache_creation_input_tokens = -1 THEN 0
           ELSE u.cache_creation_input_tokens]

RateNames == {"input", "output", "thinking"}
OverrideRates(t, f) ==
    (IF f \in DOMAIN t THEN {t[f]} ELSE {})
        \cup {t[m][f] : m \in {x \in (DOMAIN t) \ RateNames : f \in DOMAIN t[x]}}

\* C14: with an override that is a table every rate the estimate uses is a
\* rate the override specifies, none is taken from the compiled-in rates;
\* with a malformed override the compiled-in table is in effect and a
\* warning is logged.
C14_OverrideReplacesTable ==
    \A p \in SeqProcs :
        LET s == st[p]
            e == env[p]
            n == TokensOf(s.response.usage)
            UsesOverride(cost, count, f) ==
                count > 0 =>
                    \E r \in OverrideRates(e.ANTHROPIC_TOKEN_PRICING.table, f) :
                        cost = count * r
            m == IF ModelOf(e) \in DOMAIN TOKEN_PRICING THEN ModelOf(e)
                 ELSE DefaultModel
        IN  Priced(s) =>
                /\ e.ANTHROPIC_TOKEN_PRICING.kind = "table" =>
                      /\ UsesOverride(s.cost_info.input_cost, n.a, "input")
                      /\ UsesOverride(s.cost_info.output_cost, n.b, "output")
                      /\ UsesOverride(s.cost_info.thinking_cost, n.c, "thinking")
                /\ e.ANTHROPIC_TOKEN_PRICING.kind = "malformed" =>
                      /\ s.cost_info.input_cost = n.a * TOKEN_PRICING[m].input
                      /\ s.cost_info.output_cost = n.b * TOKEN_PRICING[m].output
                      /\ s.cost_info.thinking_cost = n.c * TOKEN_PRICING[m].thinking
                      /\ Logged(s.log, "WARNING", "FAILED_PARSE_PRICING")

StageRank(pc) ==
    CASE pc = "idle" -> 0
      [] pc = "check_cache" -> 1
      [] pc = "check_cred" -> 2
      [] pc = "invoke" -> 3
      [] pc = "parse" -> 4
      [] pc = "cost" -> 5
      [] pc = "log_cost" -> 6
      [] pc = "reread" -> 7
      [] pc = "write" -> 8
      [] pc = "return" -> 9
      [] pc = "done" -> 10
\* the lookup of the call found no entry for the prompt
LookupMissed(s) == s.lookup \in {"skipped", "absent", "miss", "unreadable", "malformed"}
StagesOnceInOrder ==
    \A p \in SeqProcs :
        \/ st[p].pc = "done" /\ st'[p].pc = "check_cache"
        \/ /\ StageRank(st'[p].pc) >= StageRank(st[p].pc)
           /\ st'[p] # st[p] => StageRank(st'[p].pc) > StageRank(st[p].pc)
           /\ st'[p].remote \in {st[p].remote, st[p].remote + 1}
           /\ st'[p].remote # st[p].remote => st[p].pc = "invoke"
           /\ cacheFile' # cacheFile => st[p].pc = "write"
WriteAfterParseAndCost ==
    \A p \in SeqProcs :
        /\ st[p].remote <= 1 /\ st[p].writes <= 1
        /\ (st[p].pc = "write" \/ st[p].stored \/ st[p].writes > 0) =>
               /\ st[p].remote = 1
               /\ st[p].response_text # None
               /\ "total_cost" \in DOMAIN st[p].cost_info
RemoteAfterCredential ==
    \A p \in SeqProcs :
        (st[p].pc = "invoke" \/ st[p].remote > 0) => env[p].ANTHROPIC_API_KEY # ""
RemoteAfterMiss ==
    \A p \in SeqProcs :
        (st[p].pc = "invoke" \/ st[p].remote > 0) => LookupMissed(st[p])

\* C16: every call runs its stages at most once and in the fixed order; it
\* invokes the remote service at most once, only after a lookup that found
\* no entry (or was not asked for) and with a non-empty credential, and
\* writes the cache only after the response was parsed and priced.
C16_StagesOnceInOrder ==
    /\ [][StagesOnceInOrder]_vars
    /\ [](WriteAfterParseAndCost /\ RemoteAfterCredential /\ RemoteAfterMiss)

\* the same without the condition on the lookup
C16_OrderApartFromLookup ==
    /\ [][StagesOnceInOrder]_vars
    /\ [](WriteAfterParseAndCost /\ RemoteAfterCredential)

\* ------------------------------------------------- claims on the log flag
\* C18: with cost logging enabled, a call with use_cache=true whose lookup
\* found an entry for its prompt in a cache file holding a mapping logs the
\* line 'CACHE HIT - No tokens used' and logs no cache-load warning.
C18_HitLogsCacheHitRecord ==
    \A p \in SeqProcs :
        LET s == st[p]
        IN  (/\ should_log(env[p]) /\ s.use_cache
             /\ s.lookup \in {"hit", "hit_error"}) =>
                /\ Logged(s.log, "INFO", "CACHE_HIT")
                /\ ~Logged(s.log, "WARNING", "FAILED_LOAD_CACHE")

\* the call met no I/O fault: the lookup could read the file, the store
\* re-read what the file held and could open it for writing
NoFault(s) ==
    /\ s.lookup # "unreadable"
    /\ s.stored \/ s.saveFailed =>
          s.cache = (IF s.file0.kind = "map" THEN [kind |-> "dict", map |-> s.file0.map]
                     ELSE IF s.file0.kind = "list" THEN [kind |-> "list", map |-> EmptyDict]
                     ELSE NoCache)
    /\ s.saveFailed => s.cache.kind = "list"

\* C17: two runs of the same call from equal cache files, with the same
\* remote response where both invoke the service and without I/O faults,
\* that differ only in the cost-logging flag end alike: same return value or
\* failure, same number of remote invocations, same final cache file.
C17_FlagAffectsOnlyCostLines ==
    (/\ Ended(st[1]) /\ Ended(st[2])
     /\ st[1].prompt = st[2].prompt /\ st[1].use_cache = st[2].use_cache
     /\ NoFault(st[1]) /\ NoFault(st[2])
     /\ (st[1].remote = 1 /\ st[2].remote = 1) => st[1].response = st[2].response) =>
        /\ st[1].outcome = st[2].outcome
        /\ st[1].ret = st[2].ret
        /\ st[1].err = st[2].err
        /\ st[1].remote = st[2].remote
        /\ cacheFile["dir1"] = cacheFile["dir2"]
====
